---- MODULE Spec2Model ----
(***************************************************************************)
(* A model of magnit_parser.py: MagnitAPI (serial pagination over the      *)
(* search endpoint, then semaphore-bounded enrichment of every listing     *)
(* through asyncio.gather), CSVExporter.save and MagnitParser.run.         *)
(*                                                                         *)
(* Python values are modelled as follows.  An optional value (None, or a   *)
(* missing key read through dict.get) is the empty sequence << >>, a       *)
(* present value v is <<v>>.  A dict whose keys may be missing carries the *)
(* set `has` of the keys it holds; item[k] raises KeyError when k is not   *)
(* in `has`.  The float round(v / 100, 2) of an integer v is the decimal   *)
(* with two places [units, hundredths].                                    *)
(***************************************************************************)
EXTENDS Integers, Sequences, FiniteSets, TLC

VARIABLES
    max_concurrent_requests, \* the argument MagnitAPI is constructed with
    catalog,                 \* the listings the remote search service holds
    detail_bodies,           \* the bodies the remote detail service answers with
    pc,                      \* where MagnitParser.run stands
    semaphore,               \* self.semaphore: its free slots
    session,                 \* the aiohttp.ClientSession: "none", "open", "closed"
    offset,                  \* fetch_goods_by_category: offset
    all_items,               \* fetch_goods_by_category: all_items
    search_log,              \* the search requests posted so far, in order
    response,                \* the search response received and not yet consumed
    served,                  \* the listings the service has sent in successful pages, in order
    replies,                 \* per search reply: its status and whether it reported hasMore = true
    task,                    \* the state of each _fetch_brand task
    result,                  \* what each finished _fetch_brand task returned
    detail_requests,         \* how many detail requests each task has issued
    detail_status,           \* whether the detail response each task received was a success
    detail_data,             \* the body of the successful detail response each task received
    overtaken,               \* whether a task has finished before a task created earlier
    goods,                   \* the list fetch_goods_by_category returned
    error,                   \* the exception that ended the run, if any
    csv,                     \* the rows CSVExporter.save wrote, if it ran
    semaphores,              \* two clients, two invocations: each instance's self.semaphore
    calls                    \* two clients, two invocations: each fetch_goods_by_category call

vars == <<max_concurrent_requests, catalog, detail_bodies, pc, semaphore, session, offset,
          all_items, search_log, response, served, replies, task, result,
          detail_requests, detail_status, detail_data, overtaken, goods,
          error, csv, semaphores, calls>>

-----------------------------------------------------------------------------
(* Bounds of the model *)

\* the largest concurrency bound a client is constructed with
MaxConcurrent == 2
\* the most listings the service sends over one run
MaxItems == 3
\* the most search requests explored; the code itself has no such cap
MaxPages == 3
\* the most listings one of two concurrent invocations collects
MaxCallItems == 2

-----------------------------------------------------------------------------
(* Python values *)

None == << >>
Some(v) == <<v>>

\* Python truthiness of an optional integer: None and 0 are falsy
Truthy(v) == v # None /\ v[1] # 0

\* Python's `a or b`
PyOr(a, b) == IF Truthy(a) THEN a ELSE b

\* fetch_goods_by_category: limit
limit == 50

\* the section and the parameter _fetch_brand looks for
CHARACTERISTICS == "Characteristics"
BRAND == "Brand"

-----------------------------------------------------------------------------
(* PriceNormalizer *)

\* round(value / 100, 2) of an integer: the decimal units.hundredths
Round2Div100(value) == [units |-> value \div 100, hundredths |-> value % 100]

\* MagnitAPI._format_price
format_price(value) == IF value # None THEN Some(Round2Div100(value[1])) ELSE None

\* a regular price that ignores the promotion
regular_price_ignoring_promotion(item) == format_price(item.price)

\* the "regular_price" entry of the record _fetch_brand builds
regular_price_of(item) ==
    format_price(PyOr(item.promotion.oldPrice, item.price))

\* a promo price given whenever discountPercent is present, 0 included
promo_price_if_present(item) ==
    IF item.promotion.discountPercent # None
    THEN format_price(item.price)
    ELSE None

\* the "promo_price" entry of the record _fetch_brand builds
promo_price_of(item) ==
    IF Truthy(item.promotion.discountPercent)
    THEN format_price(item.price)
    ELSE None

-----------------------------------------------------------------------------
(* Brand extraction *)

RECURSIVE BrandInParameters(_, _)
\* the inner loop of _fetch_brand: the last parameter named BRAND wins
BrandInParameters(parameters, brand) ==
    IF parameters = << >> THEN brand
    ELSE BrandInParameters(Tail(parameters),
                           IF Head(parameters).name = BRAND
                           THEN Head(parameters).value
                           ELSE brand)

RECURSIVE BrandInDetails(_, _)
\* the outer loop of _fetch_brand over data.get("details", [])
BrandInDetails(details, brand) ==
    IF details = << >> THEN brand
    ELSE BrandInDetails(Tail(details),
                        IF Head(details).name = CHARACTERISTICS
                        THEN BrandInParameters(Head(details).parameters, brand)
                        ELSE brand)

RECURSIVE BrandInAnySection(_, _)
\* a search that takes the brand from any section, whatever its name
BrandInAnySection(details, brand) ==
    IF details = << >> THEN brand
    ELSE BrandInAnySection(Tail(details),
                           BrandInParameters(Head(details).parameters, brand))

\* an extraction that does not test the section's name
extract_brand_any_section(data) ==
    LET brand == BrandInAnySection(data.details, Some(""))
    IN  IF brand = None THEN "" ELSE brand[1]

\* brand or "": None and the empty string both give ""
extract_brand(data) ==
    LET brand == BrandInDetails(data.details, Some(""))
    IN  IF brand = None THEN "" ELSE brand[1]

-----------------------------------------------------------------------------
(* The remote service: listings, search responses, detail responses *)

ListingKeys == {"id", "name", "price", "promotion"}

Listing(has, id, name, price, oldPrice, discountPercent) ==
    [has |-> has, id |-> id, name |-> name, price |-> price,
     promotion |-> [oldPrice |-> oldPrice, discountPercent |-> discountPercent]]

Milk == Listing(ListingKeys, 1, "milk", Some(1000), None, Some(10))
Kefir == Listing(ListingKeys, 2, "kefir", Some(2000), Some(2500), None)

\* the catalogues that pair a complete listing with one that lacks a key
ShapeCatalogs ==
    {{Milk, Kefir}} \cup
    {{Milk, [Kefir EXCEPT !.has = ListingKeys \ {k}]} : k \in ListingKeys}

PriceDomain == {None, Some(0), Some(1999)}
OldPriceDomain == {None, Some(0), Some(2500)}
DiscountDomain == {None, Some(0), Some(10)}

\* the catalogues of one complete listing, over every price and promotion
PriceCatalogs ==
    {{Listing(ListingKeys, 3, "cheese", p, o, d)} :
        p \in PriceDomain, o \in OldPriceDomain, d \in DiscountDomain}

Catalogs == ShapeCatalogs \cup PriceCatalogs

\* the sequences over S of length at most n
SeqsUpTo(S, n) == UNION {[1..k -> S] : k \in 0..n}

PaginationDomain ==
    {[kind |-> "absent", hasMore |-> None],
     [kind |-> "null", hasMore |-> None],
     [kind |-> "dict", hasMore |-> None],
     [kind |-> "dict", hasMore |-> Some(FALSE)],
     [kind |-> "dict", hasMore |-> Some(TRUE)]}

\* what the search endpoint may answer when at most `room` more listings
\* fit the model: a transport failure, an error status, a body that is not
\* JSON, or a JSON body whose "items" and "pagination" may be missing or null
SearchResponses(cat, room) ==
    {[status |-> s, items_kind |-> "absent", items |-> << >>,
      pagination |-> [kind |-> "absent", hasMore |-> None]] :
        s \in {"transport_error", "http_error", "malformed"}}
    \cup
    {[status |-> "ok", items_kind |-> k, items |-> << >>, pagination |-> p] :
        k \in {"absent", "null"}, p \in PaginationDomain}
    \cup
    {[status |-> "ok", items_kind |-> "list", items |-> xs, pagination |-> p] :
        xs \in SeqsUpTo(cat, room), p \in PaginationDomain}

Parameter(name, value) == [name |-> name, value |-> value]
Section(name, parameters) == [name |-> name, parameters |-> parameters]

\* the bodies of the detail responses: no details, a section that is not
\* the characteristics, characteristics without a brand, a null brand,
\* and a brand among other sections and parameters
DetailBodies ==
    {[details |-> << >>],
     [details |-> <<Section("Description", <<Parameter(BRAND, Some("Other"))>>)>>],
     [details |-> <<Section(CHARACTERISTICS, <<Parameter("Weight", Some("1 kg"))>>)>>],
     [details |-> <<Section(CHARACTERISTICS, <<Parameter(BRAND, None)>>)>>],
     [details |-> <<Section("Description", << >>),
                    Section(CHARACTERISTICS, <<Parameter("Weight", Some("1 kg")),
                                               Parameter(BRAND, Some("Prostokvashino"))>>)>>]}

\* a detail body that names a brand
BrandedBody ==
    [details |-> <<Section(CHARACTERISTICS, <<Parameter(BRAND, Some("Prostokvashino"))>>)>>]

\* what the detail endpoint may answer
DetailResponses(bodies) ==
    {[status |-> s, data |-> [details |-> << >>]] :
        s \in {"transport_error", "http_error", "malformed"}}
    \cup
    {[status |-> "ok", data |-> d] : d \in bodies}

\* The remote services explored: every catalogue with one detail body, and
\* one catalogue with every detail body
Services ==
    {[listings |-> c, bodies |-> {BrandedBody}] : c \in Catalogs}
    \cup
    {[listings |-> {Milk}, bodies |-> DetailBodies]}

-----------------------------------------------------------------------------
(* The state after the process starts, before MagnitAPI is constructed *)

Indices == 1..Len(all_items)

Init ==
    /\ max_concurrent_requests \in -1..MaxConcurrent
    /\ \E service \in Services :
          /\ catalog = service.listings
          /\ detail_bodies = service.bodies
    /\ pc = "start"
    /\ semaphore = 0
    /\ session = "none"
    /\ offset = 0
    /\ all_items = << >>
    /\ search_log = << >>
    /\ response = None
    /\ served = << >>
    /\ replies = << >>
    /\ task = << >>
    /\ result = << >>
    /\ detail_requests = << >>
    /\ detail_status = << >>
    /\ detail_data = << >>
    /\ overtaken = FALSE
    /\ goods = None
    /\ error = None
    /\ csv = None
    /\ semaphores = << >>
    /\ calls = << >>

-----------------------------------------------------------------------------
(* MagnitAPI.__init__ *)

\* asyncio.Semaphore(value) raises ValueError when value < 0 and accepts 0
SemaphoreRejects(value) == value < 0

\* MagnitAPI(store_code, max_concurrent_requests=...)
MagnitAPI_init ==
    /\ pc = "start"
    /\ IF SemaphoreRejects(max_concurrent_requests)
       THEN /\ pc' = "failed"
            /\ error' = Some("ValueError")
            /\ UNCHANGED semaphore
       ELSE /\ pc' = "constructed"
            /\ semaphore' = max_concurrent_requests
            /\ UNCHANGED error
    /\ UNCHANGED <<max_concurrent_requests, catalog, detail_bodies, session,
                   offset, all_items, search_log, response, served, replies,
                   task, result, detail_requests, detail_status, detail_data,
                   overtaken, goods, csv, semaphores, calls>>

-----------------------------------------------------------------------------
(* MagnitAPI.fetch_goods_by_category: the pagination loop *)

\* MagnitParser.run calls fetch_goods_by_category, which opens the session
fetch_goods_by_category ==
    /\ pc = "constructed"
    /\ pc' = "paging"
    /\ session' = "open"
    /\ offset' = 0
    /\ all_items' = << >>
    /\ UNCHANGED <<max_concurrent_requests, catalog, detail_bodies,
                   semaphore, search_log, response, served, replies, task,
                   result, detail_requests, detail_status, detail_data,
                   overtaken, goods, error, csv, semaphores, calls>>

\* a cursor advanced by the number of listings received, not by limit
SearchRequestByCount == [limit |-> limit, offset |-> Len(all_items)]

\* the payload's "pagination" entry
SearchRequest == [limit |-> limit, offset |-> offset]

\* a loop that posts the next request without awaiting the previous reply
post_search_eager ==
    /\ pc \in {"paging", "awaiting_page"}
    /\ Len(search_log) < MaxPages
    /\ search_log' = Append(search_log, [limit |-> limit, offset |-> limit * Len(search_log)])
    /\ pc' = "awaiting_page"
    /\ UNCHANGED <<max_concurrent_requests, catalog, detail_bodies,
                   semaphore, session, offset, all_items, response, served,
                   replies, task, result, detail_requests, detail_status,
                   detail_data, overtaken, goods, error, csv, semaphores,
                   calls>>

\* session.post(SEARCH_ENDPOINT, json=payload): the top of the while loop
post_search ==
    /\ pc = "paging"
    /\ Len(search_log) < MaxPages
    /\ search_log' = Append(search_log, SearchRequest)
    /\ pc' = "awaiting_page"
    /\ UNCHANGED <<max_concurrent_requests, catalog, detail_bodies,
                   semaphore, session, offset, all_items, response, served,
                   replies, task, result, detail_requests, detail_status,
                   detail_data, overtaken, goods, error, csv, semaphores,
                   calls>>

\* the search endpoint answers the outstanding request
search_reply ==
    /\ pc = "awaiting_page"
    /\ response = None
    /\ \E r \in SearchResponses(catalog, MaxItems - Len(served)) :
          /\ response' = Some(r)
          /\ served' = IF r.status = "ok" THEN served \o r.items ELSE served
          /\ replies' = Append(replies, [status |-> r.status,
                                         more |-> r.pagination.hasMore = Some(TRUE)])
    /\ UNCHANGED <<max_concurrent_requests, catalog, detail_bodies, pc,
                   semaphore, session, offset, all_items, search_log, task,
                   result, detail_requests, detail_status, detail_data,
                   overtaken, goods, error, csv, semaphores, calls>>

\* a loop body without raise_for_status()
PageErrorUnchecked(r) ==
    CASE r.status = "transport_error" -> Some("ClientConnectionError")
      [] r.status = "ok" /\ r.items_kind = "null" -> Some("TypeError")
      [] r.status = "ok" /\ r.pagination.kind = "null" -> Some("AttributeError")
      [] OTHER -> None

\* a loop body that reads data["pagination"]["hasMore"] without defaults
PageErrorStrict(r) ==
    CASE r.status = "transport_error" -> Some("ClientConnectionError")
      [] r.status = "http_error" -> Some("ClientResponseError")
      [] r.status = "malformed" -> Some("ContentTypeError")
      [] r.items_kind = "null" -> Some("TypeError")
      [] r.pagination.kind = "null" -> Some("TypeError")
      [] r.pagination.kind = "absent" -> Some("KeyError")
      [] r.pagination.hasMore = None -> Some("KeyError")
      [] OTHER -> None

\* The exception a page response makes the loop body raise, or None:
\* the transport's error, raise_for_status(), response.json(),
\* all_items.extend(None), None.get("hasMore")
PageError(r) ==
    CASE r.status = "transport_error" -> Some("ClientConnectionError")
      [] r.status = "http_error" -> Some("ClientResponseError")
      [] r.status = "malformed" -> Some("ContentTypeError")
      [] r.items_kind = "null" -> Some("TypeError")
      [] r.pagination.kind = "null" -> Some("AttributeError")
      [] OTHER -> None

\* a loop whose break condition is inverted
HasMoreInverted(r) == ~(r.pagination.kind = "dict" /\ r.pagination.hasMore = Some(TRUE))

\* data.get("pagination", {}).get("hasMore"), taken as a condition
HasMore(r) == r.pagination.kind = "dict" /\ r.pagination.hasMore = Some(TRUE)

\* all_items.extend(data.get("items", []))
Extend(items, r) == items \o r.items

\* the tasks asyncio.gather wraps the _fetch_brand coroutines in
NewTasks(items, value) == [i \in 1..Len(items) |-> value]

\* a page request failed: the exception leaves fetch_goods_by_category
\* through the session's context manager, and MagnitParser.run
page_failed ==
    /\ pc = "awaiting_page"
    /\ response # None
    /\ PageError(response[1]) # None
    /\ error' = PageError(response[1])
    /\ pc' = "failed"
    /\ session' = "closed"
    /\ response' = None
    /\ UNCHANGED <<max_concurrent_requests, catalog, detail_bodies,
                   semaphore, offset, all_items, search_log, served, replies,
                   task, result, detail_requests, detail_status, detail_data,
                   overtaken, goods, csv, semaphores, calls>>

\* a page was read and the service reports more: offset += limit
page_has_more ==
    /\ pc = "awaiting_page"
    /\ response # None
    /\ PageError(response[1]) = None
    /\ HasMore(response[1])
    /\ all_items' = Extend(all_items, response[1])
    /\ offset' = offset + limit
    /\ pc' = "paging"
    /\ response' = None
    /\ UNCHANGED <<max_concurrent_requests, catalog, detail_bodies,
                   semaphore, session, search_log, served, replies, task,
                   result, detail_requests, detail_status, detail_data,
                   overtaken, goods, error, csv, semaphores, calls>>

\* an enrichment started after the session's `async with` block was left
page_last_session_closed ==
    /\ pc = "awaiting_page"
    /\ response # None
    /\ PageError(response[1]) = None
    /\ ~HasMore(response[1])
    /\ all_items' = Extend(all_items, response[1])
    /\ task' = NewTasks(all_items', "waiting")
    /\ result' = NewTasks(all_items', None)
    /\ detail_requests' = NewTasks(all_items', 0)
    /\ detail_status' = NewTasks(all_items', "none")
    /\ detail_data' = NewTasks(all_items', None)
    /\ pc' = "enriching"
    /\ session' = "closed"
    /\ response' = None
    /\ UNCHANGED <<max_concurrent_requests, catalog, detail_bodies,
                   semaphore, offset, search_log, served, replies, overtaken,
                   goods, error, csv, semaphores, calls>>

\* a page was read and hasMore is falsy: break, then
\* _enrich_goods_with_brands creates one task per item and awaits gather
page_last ==
    /\ pc = "awaiting_page"
    /\ response # None
    /\ PageError(response[1]) = None
    /\ ~HasMore(response[1])
    /\ all_items' = Extend(all_items, response[1])
    /\ task' = NewTasks(all_items', "waiting")
    /\ result' = NewTasks(all_items', None)
    /\ detail_requests' = NewTasks(all_items', 0)
    /\ detail_status' = NewTasks(all_items', "none")
    /\ detail_data' = NewTasks(all_items', None)
    /\ pc' = "enriching"
    /\ response' = None
    /\ UNCHANGED <<max_concurrent_requests, catalog, detail_bodies,
                   semaphore, session, offset, search_log, served, replies,
                   overtaken, goods, error, csv, semaphores, calls>>

-----------------------------------------------------------------------------
(* MagnitAPI._fetch_brand: one task per item *)

\* item["id"], read before the try block, raises KeyError
IdRaises(item) == "id" \notin item.has

\* Building the record raises KeyError inside the try block: item["name"]
\* and item["promotion"] are always read, item["price"] only when oldPrice
\* is falsy or discountPercent is truthy
RecordRaises(item) ==
    \/ "name" \notin item.has
    \/ "promotion" \notin item.has
    \/ /\ "price" \notin item.has
       /\ \/ ~Truthy(item.promotion.oldPrice)
          \/ Truthy(item.promotion.discountPercent)

\* the dict _fetch_brand returns
Record(item, data) ==
    [id |-> item.id,
     name |-> item.name,
     regular_price |-> regular_price_of(item),
     promo_price |-> promo_price_of(item),
     brand |-> extract_brand(data)]

\* What the try block of _fetch_brand returns for a detail response:
\* any exception (the transport's, raise_for_status(), response.json(),
\* a KeyError of the item) is caught and gives None
fetch_brand_result(item, r) ==
    IF r.status # "ok" \/ RecordRaises(item)
    THEN None
    ELSE Some(Record(item, r.data))

\* a limiter that admits one task too many
CanAcquireOffByOne(value) == value >= 0

\* async with self.semaphore: a free slot may be taken
CanAcquire(value) == value > 0

\* A task takes a slot, reads item["id"] and issues session.get(url); with
\* no id the KeyError leaves the task, and the slot is released on the way
fetch_brand_enter(i) ==
    /\ pc = "enriching"
    /\ task[i] = "waiting"
    /\ CanAcquire(semaphore)
    /\ IF IdRaises(all_items[i])
       THEN /\ task' = [task EXCEPT ![i] = "raised"]
            /\ UNCHANGED <<semaphore, detail_requests>>
       ELSE /\ task' = [task EXCEPT ![i] = "in_flight"]
            /\ semaphore' = semaphore - 1
            /\ detail_requests' = [detail_requests EXCEPT ![i] = @ + 1]
    /\ UNCHANGED <<max_concurrent_requests, catalog, detail_bodies, pc,
                   session, offset, all_items, search_log, response, served,
                   replies, result, detail_status, detail_data, overtaken,
                   goods, error, csv, semaphores, calls>>

\* a task that leaves without giving its slot back
ReleaseLeaked(value) == value

\* the semaphore's value after the task leaves `async with`
Release(value) == value + 1

\* a task that goes back to wait for a slot when its request failed
fetch_brand_complete_retrying(i) ==
    /\ pc = "enriching"
    /\ task[i] = "in_flight"
    /\ \E r \in DetailResponses(detail_bodies) :
          /\ result' = [result EXCEPT ![i] = fetch_brand_result(all_items[i], r)]
          /\ detail_status' = [detail_status EXCEPT ![i] =
                                  IF r.status = "ok" THEN "ok" ELSE "error"]
          /\ detail_data' = [detail_data EXCEPT ![i] =
                                IF r.status = "ok" THEN Some(r.data) ELSE None]
          /\ task' = [task EXCEPT ![i] = IF r.status = "ok" THEN "done" ELSE "waiting"]
    /\ semaphore' = Release(semaphore)
    /\ overtaken' = (overtaken \/ \E j \in 1..(i - 1) : task[j] \in {"waiting", "in_flight"})
    /\ UNCHANGED <<max_concurrent_requests, catalog, detail_bodies, pc,
                   session, offset, all_items, search_log, response, served,
                   replies, detail_requests, goods, error, csv, semaphores,
                   calls>>

\* The detail endpoint answers a task's request: the task returns its
\* record or None and releases its slot
fetch_brand_complete(i) ==
    /\ pc = "enriching"
    /\ task[i] = "in_flight"
    /\ \E r \in DetailResponses(detail_bodies) :
          /\ result' = [result EXCEPT ![i] = fetch_brand_result(all_items[i], r)]
          /\ detail_status' = [detail_status EXCEPT ![i] =
                                  IF r.status = "ok" THEN "ok" ELSE "error"]
          /\ detail_data' = [detail_data EXCEPT ![i] =
                                IF r.status = "ok" THEN Some(r.data) ELSE None]
    /\ task' = [task EXCEPT ![i] = "done"]
    /\ semaphore' = Release(semaphore)
    /\ overtaken' = (overtaken \/ \E j \in 1..(i - 1) : task[j] \in {"waiting", "in_flight"})
    /\ UNCHANGED <<max_concurrent_requests, catalog, detail_bodies, pc,
                   session, offset, all_items, search_log, response, served,
                   replies, detail_requests, goods, error, csv, semaphores,
                   calls>>

-----------------------------------------------------------------------------
(* MagnitAPI._enrich_goods_with_brands: asyncio.gather and the filter *)

\* a wait that ends with the first task to finish
GatherFirstCompleted(tasks) == \E i \in DOMAIN tasks : tasks[i] = "done"

\* gather's future has a result once every task has returned
GatherDone(tasks) == \A i \in DOMAIN tasks : tasks[i] = "done"

RECURSIVE EnrichedUntilFailure(_)
\* an aggregation that gives up at the first failed item
EnrichedUntilFailure(results) ==
    IF results = << >> \/ Head(results) = None
    THEN << >>
    ELSE <<Head(results)[1]>> \o EnrichedUntilFailure(Tail(results))

\* an aggregation that puts each kept record in front of the earlier ones
EnrichedPrepending(results) ==
    LET kept == SelectSeq(results, LAMBDA r : r # None)
    IN  [k \in 1..Len(kept) |-> kept[Len(kept) + 1 - k][1]]

\* [item for item in results if item is not None]
Enriched(results) ==
    LET kept == SelectSeq(results, LAMBDA r : r # None)
    IN  [k \in 1..Len(kept) |-> kept[k][1]]

\* gather returns the results in task order; the filtered list is returned
\* through fetch_goods_by_category, whose session closes on the way out
gather_return ==
    /\ pc = "enriching"
    /\ GatherDone(task)
    /\ goods' = Some(Enriched(result))
    /\ session' = "closed"
    /\ pc' = "returned"
    /\ UNCHANGED <<max_concurrent_requests, catalog, detail_bodies,
                   semaphore, offset, all_items, search_log, response,
                   served, replies, task, result, detail_requests,
                   detail_status, detail_data, overtaken, error, csv,
                   semaphores, calls>>

\* gather (return_exceptions=False) raises the first exception of a task
\* at once, without waiting for the other tasks; the exception leaves
\* fetch_goods_by_category, closing the session, and MagnitParser.run
gather_raise ==
    /\ pc = "enriching"
    /\ \E i \in DOMAIN task : task[i] = "raised"
    /\ error' = Some("KeyError")
    /\ session' = "closed"
    /\ pc' = "failed"
    /\ UNCHANGED <<max_concurrent_requests, catalog, detail_bodies,
                   semaphore, offset, all_items, search_log, response,
                   served, replies, task, result, detail_requests,
                   detail_status, detail_data, overtaken, goods, csv,
                   semaphores, calls>>

-----------------------------------------------------------------------------
(* CSVExporter.save, called by MagnitParser.run *)

\* item["promo_price"] or "": None and 0.0 are written as the empty string
PromoCell(promo_price) ==
    IF promo_price = None \/ promo_price[1] = Round2Div100(0)
    THEN None
    ELSE promo_price

\* one row per record, after the header row
Rows(records) ==
    [k \in 1..Len(records) |->
        [id |-> records[k].id,
         name |-> records[k].name,
         regular_price |-> records[k].regular_price,
         promo_price |-> PromoCell(records[k].promo_price),
         brand |-> records[k].brand]]

exporter_save ==
    /\ pc = "returned"
    /\ csv' = Some(Rows(goods[1]))
    /\ pc' = "exported"
    /\ UNCHANGED <<max_concurrent_requests, catalog, detail_bodies,
                   semaphore, session, offset, all_items, search_log,
                   response, served, replies, task, result, detail_requests,
                   detail_status, detail_data, overtaken, goods, error,
                   semaphores, calls>>

-----------------------------------------------------------------------------
(* The specification *)

Next ==
    \/ MagnitAPI_init
    \/ fetch_goods_by_category
    \/ post_search
    \/ search_reply
    \/ page_failed
    \/ page_has_more
    \/ page_last
    \/ \E i \in Indices : fetch_brand_enter(i)
    \/ \E i \in Indices : fetch_brand_complete(i)
    \/ gather_return
    \/ gather_raise
    \/ exporter_save

Spec == Init /\ [][Next]_vars

\* The event loop runs every task that is ready: a task that can take a
\* slot takes it, a request in flight is answered (by a body or by a
\* failure), and gather's awaiter is resumed once gather has an outcome
Fairness ==
    /\ WF_vars(\E i \in Indices : fetch_brand_enter(i))
    /\ WF_vars(\E i \in Indices : fetch_brand_complete(i))
    /\ WF_vars(gather_return)
    /\ WF_vars(gather_raise)

FairSpec == Spec /\ Fairness

-----------------------------------------------------------------------------
(* Two fetch_goods_by_category invocations running concurrently, on one   *)
(* MagnitAPI instance or on two.  The pagination loop of an invocation    *)
(* does not touch the semaphore and is taken as one step here.            *)

\* the MagnitAPI instances and the invocations
Clients == {1, 2}
Calls == {1, 2}

\* a listing without the "id" key
KefirNoId == [Kefir EXCEPT !.has = ListingKeys \ {"id"}]

\* Both instances are constructed with max_concurrent_requests; the first
\* invocation runs on the first instance, the second on either
SharedInit ==
    /\ max_concurrent_requests \in 1..MaxConcurrent
    /\ catalog = {Milk, KefirNoId}
    /\ detail_bodies = {BrandedBody}
    /\ pc = "start"
    /\ semaphore = 0
    /\ session = "none"
    /\ offset = 0
    /\ all_items = << >>
    /\ search_log = << >>
    /\ response = None
    /\ served = << >>
    /\ replies = << >>
    /\ task = << >>
    /\ result = << >>
    /\ detail_requests = << >>
    /\ detail_status = << >>
    /\ detail_data = << >>
    /\ overtaken = FALSE
    /\ goods = None
    /\ error = None
    /\ csv = None
    /\ semaphores = [k \in Clients |-> max_concurrent_requests]
    /\ \E k \in Clients :
          calls = [c \in Calls |->
                      [client |-> IF c = 1 THEN 1 ELSE k,
                       pc |-> "paging",
                       all_items |-> << >>,
                       task |-> << >>,
                       result |-> << >>]]

\* a limiter created anew by each invocation
LimiterPerCall(c) == c

\* self.semaphore: the semaphore of the instance the invocation runs on
LimiterOf(c) == calls[c].client

\* The pagination loop of invocation c ends with its listings collected;
\* _enrich_goods_with_brands creates one task per item and awaits gather
call_pages_fetched(c) ==
    /\ calls[c].pc = "paging"
    /\ \E xs \in SeqsUpTo(catalog, MaxCallItems) :
          calls' = [calls EXCEPT ![c].all_items = xs,
                                 ![c].task = NewTasks(xs, "waiting"),
                                 ![c].result = NewTasks(xs, None),
                                 ![c].pc = "enriching"]
    /\ UNCHANGED <<max_concurrent_requests, catalog, detail_bodies, pc,
                   semaphore, session, offset, all_items, search_log,
                   response, served, replies, task, result, detail_requests,
                   detail_status, detail_data, overtaken, goods, error, csv,
                   semaphores>>

\* A search request of invocation c fails: the exception leaves the call
call_page_failed(c) ==
    /\ calls[c].pc = "paging"
    /\ calls' = [calls EXCEPT ![c].pc = "failed"]
    /\ UNCHANGED <<max_concurrent_requests, catalog, detail_bodies, pc,
                   semaphore, session, offset, all_items, search_log,
                   response, served, replies, task, result, detail_requests,
                   detail_status, detail_data, overtaken, goods, error, csv,
                   semaphores>>

\* Task i of invocation c takes a slot of its instance's semaphore; with
\* no id the KeyError leaves the task and the slot is released on the way.
\* A task goes on after gather has raised in its invocation.
call_fetch_brand_enter(c, i) ==
    /\ calls[c].pc \in {"enriching", "failed"}
    /\ calls[c].task[i] = "waiting"
    /\ CanAcquire(semaphores[LimiterOf(c)])
    /\ IF IdRaises(calls[c].all_items[i])
       THEN /\ calls' = [calls EXCEPT ![c].task[i] = "raised"]
            /\ UNCHANGED semaphores
       ELSE /\ calls' = [calls EXCEPT ![c].task[i] = "in_flight"]
            /\ semaphores' = [semaphores EXCEPT ![LimiterOf(c)] = @ - 1]
    /\ UNCHANGED <<max_concurrent_requests, catalog, detail_bodies, pc,
                   semaphore, session, offset, all_items, search_log,
                   response, served, replies, task, result, detail_requests,
                   detail_status, detail_data, overtaken, goods, error, csv>>

\* Task i of invocation c gets its answer, returns its record or None and
\* releases the slot
call_fetch_brand_complete(c, i) ==
    /\ calls[c].pc \in {"enriching", "failed"}
    /\ calls[c].task[i] = "in_flight"
    /\ \E r \in DetailResponses(detail_bodies) :
          calls' = [calls EXCEPT ![c].task[i] = "done",
                                 ![c].result[i] =
                                     fetch_brand_result(calls[c].all_items[i], r)]
    /\ semaphores' = [semaphores EXCEPT ![LimiterOf(c)] = Release(@)]
    /\ UNCHANGED <<max_concurrent_requests, catalog, detail_bodies, pc,
                   semaphore, session, offset, all_items, search_log,
                   response, served, replies, task, result, detail_requests,
                   detail_status, detail_data, overtaken, goods, error, csv>>

\* gather of invocation c returns once every task of c has returned
call_gather_return(c) ==
    /\ calls[c].pc = "enriching"
    /\ GatherDone(calls[c].task)
    /\ calls' = [calls EXCEPT ![c].pc = "returned"]
    /\ UNCHANGED <<max_concurrent_requests, catalog, detail_bodies, pc,
                   semaphore, session, offset, all_items, search_log,
                   response, served, replies, task, result, detail_requests,
                   detail_status, detail_data, overtaken, goods, error, csv,
                   semaphores>>

\* gather of invocation c raises the first exception of a task of c
call_gather_raise(c) ==
    /\ calls[c].pc = "enriching"
    /\ \E i \in DOMAIN calls[c].task : calls[c].task[i] = "raised"
    /\ calls' = [calls EXCEPT ![c].pc = "failed"]
    /\ UNCHANGED <<max_concurrent_requests, catalog, detail_bodies, pc,
                   semaphore, session, offset, all_items, search_log,
                   response, served, replies, task, result, detail_requests,
                   detail_status, detail_data, overtaken, goods, error, csv,
                   semaphores>>

SharedNext ==
    \/ \E c \in Calls : call_pages_fetched(c)
    \/ \E c \in Calls : call_page_failed(c)
    \/ \E c \in Calls : \E i \in DOMAIN calls[c].task : call_fetch_brand_enter(c, i)
    \/ \E c \in Calls : \E i \in DOMAIN calls[c].task : call_fetch_brand_complete(c, i)
    \/ \E c \in Calls : call_gather_return(c)
    \/ \E c \in Calls : call_gather_raise(c)

SharedSpec == SharedInit /\ [][SharedNext]_vars

-----------------------------------------------------------------------------
(* Claims *)

InFlight == {i \in DOMAIN task : task[i] = "in_flight"}
Waiting == {i \in DOMAIN task : task[i] = "waiting"}

\* the run is past the pagination loop, in or after _enrich_goods_with_brands
LoopEnded == pc \in {"enriching", "returned", "exported"} \/ error = Some("KeyError")

\* C1: during enrichment the number of detail requests in flight never
\* exceeds max_concurrent_requests, whatever the order of completions.
C1_ConcurrencyBound ==
    InFlight # {} => Cardinality(InFlight) <= max_concurrent_requests

\* C1 witness: the limiter is saturated at 2 while another task waits
C1_Witness ==
    /\ max_concurrent_requests = 2
    /\ Cardinality(InFlight) = 2
    /\ Waiting # {}

\* the listings whose enrichment succeeded: the detail response was a
\* success and the record could be built from the listing
Succeeded == {i \in DOMAIN task : detail_status[i] = "ok" /\ ~RecordRaises(all_items[i])}

\* the places of the returned list that hold a record of listing l
RecordsOf(l) == {k \in DOMAIN goods[1] : goods[1][k].id = l.id /\ goods[1][k].name = l.name}

\* C2: once enrichment has returned, the returned list holds exactly one
\* record, carrying the listing's id and name, for each listing whose
\* enrichment succeeded and none for a listing whose detail fetch failed:
\* a failed listing neither removes nor duplicates another listing's record.
C2_FailureIsolation ==
    goods # None =>
        /\ Len(goods[1]) = Cardinality(Succeeded)
        /\ \A l \in catalog :
              Cardinality(RecordsOf(l)) =
                  Cardinality({i \in Succeeded : all_items[i] = l})

\* C2 witness: three listings, the middle one's detail fetch failed, and
\* the two others are returned
C2_Witness ==
    /\ goods # None
    /\ Len(all_items) = 3
    /\ all_items[1] # all_items[3]
    /\ detail_status = <<"ok", "error", "ok">>
    /\ Len(goods[1]) = 2

\* C3 (as claimed): no error of a single listing's enrichment ends the run;
\* a run fails only before any _fetch_brand task exists.
C3_EnrichmentErrorsContained ==
    pc = "failed" => task = << >>

\* the offsets 0, 50, 100, ... with limit 50
ExpectedRequest(k) == [limit |-> 50, offset |-> (k - 1) * 50]

\* C4: the k-th search request carries limit 50 and offset (k-1)*50; when
\* the loop has ended after n replies, hasMore was reported true by the
\* first n-1 and not by the n-th, exactly n requests were posted, and the
\* accumulated listings are the pages' listings in page order (so their
\* number is the sum of the page sizes).
C4_Pagination ==
    /\ \A k \in DOMAIN search_log : search_log[k] = ExpectedRequest(k)
    /\ LoopEnded =>
          /\ Len(search_log) = Len(replies)
          /\ \A k \in DOMAIN replies : replies[k].more <=> k < Len(replies)
          /\ all_items = served

\* C4 witness: three pages were read, offsets 0, 50, 100, and the loop ended
C4_Witness ==
    /\ pc = "enriching"
    /\ search_log = <<ExpectedRequest(1), ExpectedRequest(2), ExpectedRequest(3)>>
    /\ offset = 100
    /\ Len(all_items) = 3

\* a search reply was a transport failure or carried an error status
PageRequestFailed ==
    \E k \in DOMAIN replies : replies[k].status \in {"transport_error", "http_error"}

\* C5: once a page request has failed, on any page, no list is returned,
\* no detail request is issued and the exporter is not invoked; when the
\* reply has been handled the run has failed with the error and the session
\* is closed.
C5_PageFailureFatal ==
    PageRequestFailed =>
        /\ goods = None
        /\ csv = None
        /\ task = << >>
        /\ \A i \in DOMAIN detail_requests : detail_requests[i] = 0
        /\ pc \in {"awaiting_page", "failed"}
        /\ response = None =>
              /\ pc = "failed"
              /\ error \in {Some("ClientConnectionError"), Some("ClientResponseError")}
              /\ session = "closed"

\* C5 witness: the second page failed after the first had delivered listings
C5_Witness ==
    /\ pc = "failed"
    /\ Len(replies) = 2
    /\ replies[2].status = "http_error"
    /\ all_items # << >>

\* C6 (as claimed): a client constructed with a bound of zero or less is
\* rejected at construction, so that no search request and no detail request
\* is ever issued for it.
C6_NonPositiveBoundRejected ==
    max_concurrent_requests <= 0 =>
        /\ search_log = << >>
        /\ \A i \in DOMAIN detail_requests : detail_requests[i] = 0

\* C7: when fetch_goods_by_category has returned its list, and the session
\* has been closed behind it, every listing's task has finished with a
\* record or a drop: none is in flight and none has yet to start.
C7_JoinBarrier ==
    (goods # None \/ (session = "closed" /\ error = None)) =>
        /\ goods # None /\ session = "closed"
        /\ \A i \in DOMAIN task : task[i] = "done" /\ detail_status[i] # "none"
        /\ InFlight = {} /\ Waiting = {}

\* C7 witness: three listings went through one slot, one was dropped, and
\* the list was returned
C7_Witness ==
    /\ pc = "returned"
    /\ max_concurrent_requests = 1
    /\ Len(task) = 3
    /\ \E i \in DOMAIN task : detail_status[i] = "error"
    /\ Len(goods[1]) = 2

\* C8: at most one search request is without a reply, and while one is,
\* every earlier reply has been consumed and its listings appended.
C8_SerialPagination ==
    /\ Len(search_log) - Len(replies) \in {0, 1}
    /\ Len(search_log) > Len(replies) =>
          /\ pc = "awaiting_page"
          /\ response = None
          /\ all_items = served

\* C8 witness: the second request is outstanding after the first page's
\* listings were appended
C8_Witness ==
    /\ Len(search_log) = 2
    /\ Len(replies) = 1
    /\ all_items # << >>
    /\ all_items = served

\* a successful page response that reports hasMore = true is being consumed
ConsumingMore ==
    /\ pc = "awaiting_page"
    /\ response # None
    /\ response[1].status = "ok"
    /\ response[1].items_kind # "null"
    /\ response[1].pagination = [kind |-> "dict", hasMore |-> Some(TRUE)]

\* the loop goes on: the next request will carry offset + 50
LoopContinues == pc' = "paging" /\ offset' = offset + 50

\* the step that leaves the loop without an error
LoopStops == pc = "awaiting_page" /\ pc' = "enriching"

\* C9 (as claimed): a successful page that reports hasMore = true always
\* continues the loop with the offset raised by 50, and the loop stops
\* without error only on a response that reported hasMore = false.
C9_StopsOnlyOnFalse ==
    [][/\ ConsumingMore => LoopContinues
       /\ LoopStops => response[1].pagination.hasMore = Some(FALSE)]_vars

\* C9 (amended): a successful page that reports hasMore = true always
\* continues the loop with the offset raised by 50, and the loop stops
\* without error only on a response that did not report hasMore = true:
\* it reported false or null, or left out hasMore or the pagination object.
C9_StopsOnlyOnNotTrue ==
    [][/\ ConsumingMore => LoopContinues
       /\ LoopStops => response[1].pagination.hasMore # Some(TRUE)]_vars

\* C9 witness: the loop went on after one page and stopped after the next
C9_Witness ==
    /\ pc = "enriching"
    /\ offset = 50
    /\ replies = <<[status |-> "ok", more |-> TRUE], [status |-> "ok", more |-> FALSE]>>

\* the price p, an optional decimal, is v hundredths
IsHundredths(p, v) ==
    /\ p # None
    /\ p[1].hundredths \in 0..99
    /\ p[1].units * 100 + p[1].hundredths = v

\* the finished tasks that built a record from a listing with an integer price
Priced ==
    {i \in DOMAIN result : /\ result[i] # None
                           /\ "price" \in all_items[i].has
                           /\ all_items[i].price # None}

\* C10 (as claimed): regular_price is oldPrice/100 whenever the promotion
\* carries an oldPrice, 0 included, and price/100 when it carries none.
C10_RegularPriceFromOldPrice ==
    \A i \in Priced :
        LET oldPrice == all_items[i].promotion.oldPrice
        IN  IsHundredths(result[i][1].regular_price,
                         IF oldPrice # None THEN oldPrice[1] ELSE all_items[i].price[1])

\* C10 (amended): regular_price is oldPrice/100 whenever the promotion
\* carries a non-zero oldPrice, and price/100 when oldPrice is absent or 0.
C10_RegularPriceFromNonZeroOldPrice ==
    \A i \in Priced :
        LET oldPrice == all_items[i].promotion.oldPrice
        IN  IsHundredths(result[i][1].regular_price,
                         IF oldPrice # None /\ oldPrice[1] # 0
                         THEN oldPrice[1]
                         ELSE all_items[i].price[1])

\* C10 witness: a record was built from a listing with price 1999 and an
\* oldPrice of 0, and its regular_price is 19.99
C10_Witness ==
    \E i \in Priced :
        /\ all_items[i].price = Some(1999)
        /\ all_items[i].promotion.oldPrice = Some(0)
        /\ result[i][1].regular_price = Some([units |-> 19, hundredths |-> 99])

\* C11 (as claimed): a record built from a listing with an integer price has
\* no promo_price when the promotion carries no discountPercent, and has
\* promo_price = price/100 when it carries one, whatever its value, 0 included.
C11_PromoPriceWhenDiscountPresent ==
    \A i \in Priced :
        LET discountPercent == all_items[i].promotion.discountPercent
            promo_price == result[i][1].promo_price
        IN  IF discountPercent = None
            THEN promo_price = None
            ELSE IsHundredths(promo_price, all_items[i].price[1])

\* C11 (amended): a record built from a listing with an integer price has
\* no promo_price when the promotion carries no discountPercent or one equal
\* to 0, and has promo_price = price/100 when it carries a non-zero one.
C11_PromoPriceWhenDiscountNonZero ==
    \A i \in Priced :
        LET discountPercent == all_items[i].promotion.discountPercent
            promo_price == result[i][1].promo_price
        IN  IF discountPercent = None \/ discountPercent[1] = 0
            THEN promo_price = None
            ELSE IsHundredths(promo_price, all_items[i].price[1])

\* C11 witness: a record was built from a listing with price 1999 and a
\* discountPercent of 10, and its promo_price is 19.99
C11_Witness ==
    \E i \in Priced :
        /\ all_items[i].price = Some(1999)
        /\ all_items[i].promotion.discountPercent = Some(10)
        /\ result[i][1].promo_price = Some([units |-> 19, hundredths |-> 99])

\* the non-null values of the parameters named Brand inside the sections
\* named Characteristics of a detail body
BrandValues(data) ==
    UNION {{section.parameters[p].value[1] :
                p \in {p \in DOMAIN section.parameters :
                          /\ section.parameters[p].name = "Brand"
                          /\ section.parameters[p].value # None}} :
           section \in {data.details[s] : s \in {s \in DOMAIN data.details :
                                                  data.details[s].name = "Characteristics"}}}

\* the tasks that received a successful detail response for a listing
\* whose record can be built
Detailed == {i \in DOMAIN task : detail_data[i] # None /\ ~RecordRaises(all_items[i])}

\* C12: for a successful detail response the record is produced, its brand
\* is the value of the parameter Brand of the section Characteristics, and
\* it is the empty string when the details, the section or the parameter
\* is absent or the value is null.
C12_BrandExtraction ==
    \A i \in Detailed :
        /\ result[i] # None
        /\ IF BrandValues(detail_data[i][1]) = {}
           THEN result[i][1].brand = ""
           ELSE result[i][1].brand \in BrandValues(detail_data[i][1])

\* C12 witness: in one run a record took its brand from the characteristics
\* while two others, from a body with a Brand outside the characteristics
\* and from a body with a null Brand, got the empty string
C12_Witness ==
    /\ pc = "returned"
    /\ Len(goods[1]) = 3
    /\ \E i, j, k \in Detailed :
          /\ result[i][1].brand = "Prostokvashino"
          /\ detail_data[j][1] = [details |-> <<Section("Description", <<Parameter("Brand", Some("Other"))>>)>>]
          /\ result[j][1].brand = ""
          /\ detail_data[k][1] = [details |-> <<Section("Characteristics", <<Parameter("Brand", None)>>)>>]
          /\ result[k][1].brand = ""

\* the tasks that have taken a slot and issued their detail request
Issued == {i \in DOMAIN task : detail_requests[i] > 0}

\* C13: once the client is constructed, free slots + enrichments in flight =
\* max_concurrent_requests in every state; a task is in flight or done only
\* after it has taken its one slot and issued its request; and after
\* enrichment has returned every slot is free again, failures included.
C13_SlotAccounting ==
    (pc # "start" /\ error # Some("ValueError")) =>
        /\ semaphore + Cardinality(InFlight) = max_concurrent_requests
        /\ semaphore \in 0..max_concurrent_requests
        /\ \A i \in DOMAIN task : task[i] \in {"in_flight", "done"} <=> i \in Issued
        /\ goods # None => semaphore = max_concurrent_requests

\* C13 witness: enrichment returned after a failed and a successful detail
\* request had shared one slot, and the slot is free
C13_Witness ==
    /\ goods # None
    /\ max_concurrent_requests = 1
    /\ semaphore = 1
    /\ \E i, j \in Issued : detail_status[i] = "error" /\ detail_status[j] = "ok"

\* C15: each listing's detail request is issued at most once in a run,
\* whether it succeeded or failed, so the detail requests never outnumber
\* the accumulated listings and a finished task never runs again.
C15_NoRetry ==
    /\ \A i \in DOMAIN detail_requests : detail_requests[i] <= 1
    /\ Cardinality(Issued) <= Len(all_items)
    /\ \A i \in DOMAIN task : detail_status[i] # "none" => task[i] = "done"

\* C15 witness: a listing's only detail request failed, the listing was
\* dropped and the run went on to return the other records
C15_Witness ==
    /\ goods # None
    /\ Len(all_items) = 2
    /\ detail_status = <<"error", "ok">>
    /\ detail_requests = <<1, 1>>
    /\ Len(goods[1]) = 1

\* the number of detail requests task i has issued, 0 before the task exists
RequestsOf(requests, i) == IF i \in DOMAIN requests THEN requests[i] ELSE 0

\* a step in which some task issues a detail request
IssuesDetailRequest ==
    \E i \in DOMAIN detail_requests' :
        RequestsOf(detail_requests', i) > RequestsOf(detail_requests, i)

\* C16: a detail request is issued only after the page response that ended
\* the loop has been consumed (every search request has its reply, the last
\* reply did not report more, and its listings are accumulated), and only
\* while the session opened for the pagination is open.
C16_FetchAllThenEnrich ==
    [][IssuesDetailRequest =>
          /\ session = "open" /\ session' = "open"
          /\ response = None
          /\ Len(replies) = Len(search_log)
          /\ ~replies[Len(replies)].more
          /\ all_items = served]_vars

\* C16 witness: a detail request is in flight after two pages were read,
\* and the session is open
C16_Witness ==
    /\ InFlight # {}
    /\ Len(search_log) = 2
    /\ session = "open"

\* a successful page response that does not report hasMore = true is being
\* consumed: it has no pagination object, or no hasMore, or a null or false one
ConsumingLast ==
    /\ pc = "awaiting_page"
    /\ response # None
    /\ response[1].status = "ok"
    /\ response[1].items_kind # "null"
    /\ response[1].pagination.kind \in {"absent", "dict"}
    /\ response[1].pagination.hasMore \in {None, Some(FALSE)}

\* C18: a successful page response without the pagination object or without
\* hasMore, or with a null or false hasMore, ends the loop after that page:
\* its items are accumulated, the run goes on to enrichment without an
\* error, and no further search request is ever posted.
C18_MissingHasMoreEndsLoop ==
    [][/\ ConsumingLast =>
            /\ pc' = "enriching"
            /\ all_items' = all_items \o response[1].items
            /\ error' = None
       /\ pc \in {"enriching", "returned", "exported"} => search_log' = search_log]_vars

\* C18 witness: the loop ended after the first page, whose two listings
\* were accumulated
C18_Witness ==
    /\ pc = "enriching"
    /\ Len(search_log) = 1
    /\ Len(all_items) = 2

\* the place in the returned list of the record of listing i
Rank(i) == Cardinality({j \in Succeeded : j <= i})

\* C17: the returned records are the records of the surviving listings in
\* the listings' own order, whatever the order in which the detail requests
\* completed: the record of an earlier listing comes before the record of
\* a later one.
C17_OutputInInputOrder ==
    goods # None =>
        /\ Len(goods[1]) = Cardinality(Succeeded)
        /\ \A i \in Succeeded :
              /\ goods[1][Rank(i)] = result[i][1]
              /\ goods[1][Rank(i)].id = all_items[i].id
              /\ goods[1][Rank(i)].name = all_items[i].name

\* C17 witness: a later listing's request completed before an earlier
\* one's, a listing in between was dropped, and the two different records
\* returned are in the listings' order
C17_Witness ==
    /\ goods # None
    /\ overtaken
    /\ Succeeded = {1, 3}
    /\ all_items[1].id # all_items[3].id
    /\ goods[1][1].id = all_items[1].id
    /\ goods[1][2].id = all_items[3].id

\* the enrichment stage runs with a limiter that has at least one slot
EnrichmentStarted == pc = "enriching" /\ max_concurrent_requests >= 1

\* every listing's detail request has been issued and the stage has returned
EnrichmentReturned ==
    /\ goods # None
    /\ \A i \in Indices : detail_requests[i] >= 1

\* C14: with at least one slot and every issued request answered, every
\* listing's detail request is eventually issued and the enrichment stage
\* eventually returns.
C14_EnrichmentLive == EnrichmentStarted ~> EnrichmentReturned

\* the same, for runs in which every listing carries an "id"
C14_EnrichmentLiveWithIds ==
    (EnrichmentStarted /\ \A i \in Indices : ~IdRaises(all_items[i]))
        ~> EnrichmentReturned

\* the tasks holding a slot of instance k, over all its invocations
InFlightOn(k) ==
    {<<c, i>> \in Calls \X (1..MaxCallItems) :
        /\ calls[c].client = k
        /\ i \in DOMAIN calls[c].task
        /\ calls[c].task[i] = "in_flight"}

\* C19: the in-flight detail requests of all the invocations running on one
\* client together stay at or below max_concurrent_requests, and each
\* client's free slots are taken only by its own invocations' requests.
C19_LimiterPerInstance ==
    \A k \in Clients :
        /\ Cardinality(InFlightOn(k)) <= max_concurrent_requests
        /\ semaphores[k] = max_concurrent_requests - Cardinality(InFlightOn(k))

\* C19 witness: both invocations run on one client, each has a request in
\* flight, the client's slots are all taken and a task of one of them waits
C19_Witness ==
    /\ calls[1].client = calls[2].client
    /\ \A c \in Calls : \E i \in DOMAIN calls[c].task : calls[c].task[i] = "in_flight"
    /\ semaphores[1] = 0
    /\ \E c \in Calls : \E i \in DOMAIN calls[c].task :
          calls[c].task[i] = "waiting" /\ ~IdRaises(calls[c].all_items[i])

\* two invocations on two clients have more requests in flight together
\* than one client admits
TwoClientsExceedOneBound ==
    /\ calls[1].client # calls[2].client
    /\ Cardinality(InFlightOn(1)) + Cardinality(InFlightOn(2)) > max_concurrent_requests

====
